---- MODULE Spec2Model ----
(***************************************************************************)
(* Hex grid analysis of src/maps/grid_analyzer.py.                         *)
(*                                                                         *)
(* A raster is the set of its foreground pixels <<y, x>> together with its *)
(* shape (height, width).  Python lists are sequences; list indices are    *)
(* kept 1-based (position i here is index i-1 in the source).  Python      *)
(* dicts are records, and dict.get(key, default) is Get.  Floats that the  *)
(* code produces by one division are kept exact as <<numerator,            *)
(* denominator>> with a positive denominator.                              *)
(***************************************************************************)
EXTENDS Integers, Sequences, FiniteSets, TLC

VARIABLES
    pc,                 \* position inside analyze_grid_structure / harness
    scene,              \* description of the input the raster was drawn from
    shape,              \* [height, width] of the edge raster
    edges,              \* the edge raster (foreground pixels)
    projections,        \* dict returned by _get_4_directional_projections
    combined_boundary,  \* OR of the projections
    boundaries,         \* top/bottom/left/right/height/width
    vertical_lines,     \* result of _detect_vertical_lines
    line_segments,      \* left_lines / right_lines / matched_pairs
    constraint_solution,\* result of _solve_constraints_from_matched_pairs
    grid_solution,      \* result of _solve_hex_constraints
    stages,             \* stages of the analysis that have run
    outcome,            \* what analyze_grid_structure returned
    args,               \* arguments of a directly called function
    result              \* its return value

vars == <<pc, scene, shape, edges, projections, combined_boundary, boundaries,
          vertical_lines, line_segments, constraint_solution, grid_solution,
          stages, outcome, args, result>>

None == [kind |-> "None"]

\* ------------------------------------------------------------------------
\* Program constants
\* ------------------------------------------------------------------------
MIN_LINE_LENGTH == 10
MAX_ROWS == 20
DEFAULT_NUM_STARTING_COLS == 7
DEFAULT_NUM_STARTING_ROWS == 7
HEIGHT_FACTOR == 1
edge_thickness == 3
x_tolerance == 3
gap_tolerance == 5
error_margin == 5
MIN_OVERLAP == 20

\* ------------------------------------------------------------------------
\* Small helpers (numpy / builtins)
\* ------------------------------------------------------------------------
SetMin(S) == CHOOSE m \in S : \A n \in S : m <= n
SetMax(S) == CHOOSE m \in S : \A n \in S : m >= n
Abs(n) == IF n < 0 THEN -n ELSE n
Min2(a, b) == IF a <= b THEN a ELSE b
Max2(a, b) == IF a >= b THEN a ELSE b
Get(d, k, default) == IF k \in DOMAIN d THEN d[k] ELSE default

RECURSIVE SortedSeq(_)
SortedSeq(S) ==
    IF S = {} THEN <<>>
    ELSE LET m == SetMin(S) IN <<m>> \o SortedSeq(S \ {m})

RECURSIVE SeqSum(_)
SeqSum(s) == IF s = <<>> THEN 0 ELSE Head(s) + SeqSum(Tail(s))

\* projection[y, :] > 0  and  projection[:, x] > 0
RowPixels(img, y) == {p[2] : p \in {q \in img : q[1] = y}}
ColPixels(img, x) == {p[1] : p \in {q \in img : q[2] = x}}
RowsOf(img) == {p[1] : p \in img}
ColsOf(img) == {p[2] : p \in img}

\* ------------------------------------------------------------------------
\* _create_vertical_edge_mask: opening with a 1x20 kernel (anchor row 10,
\* pixels outside the raster do not erode), then a 3x5 dilation.
\* ------------------------------------------------------------------------
KernelRows == -10 .. 9

Erode1x20(img, h) ==
    {p \in img : \A d \in KernelRows :
        \/ p[1] + d < 0
        \/ p[1] + d >= h
        \/ <<p[1] + d, p[2]>> \in img}

Dilate1x20(img, h) ==
    {q \in {<<p[1] - d, p[2]>> : p \in img, d \in KernelRows} :
        q[1] >= 0 /\ q[1] < h}

Dilate3x5(img, h, w) ==
    {q \in {<<p[1] + dy, p[2] + dx>> : p \in img, dy \in -2 .. 2, dx \in -1 .. 1} :
        q[1] >= 0 /\ q[1] < h /\ q[2] >= 0 /\ q[2] < w}

create_vertical_edge_mask(img, h, w) ==
    Dilate3x5(Dilate1x20(Erode1x20(img, h), h), h, w)

\* ------------------------------------------------------------------------
\* _get_4_directional_projections
\* ------------------------------------------------------------------------
view_from_top(img, h) ==
    UNION {LET first_edge == SetMin(ColPixels(img, col))
           IN {<<first_edge + t, col>> : t \in {u \in 0 .. edge_thickness - 1 : first_edge + u < h}}
           : col \in ColsOf(img)}

view_from_bottom(img, h) ==
    UNION {LET last_edge == SetMax(ColPixels(img, col))
           IN {<<last_edge - t, col>> : t \in {u \in 0 .. edge_thickness - 1 : last_edge - u >= 0}}
           : col \in ColsOf(img)}

view_from_left(img, w) ==
    UNION {LET first_edge == SetMin(RowPixels(img, row))
           IN {<<row, first_edge + t>> : t \in {u \in 0 .. edge_thickness - 1 : first_edge + u < w}}
           : row \in RowsOf(img)}

view_from_right_forward(img, w) ==
    UNION {LET last_edge == SetMax(RowPixels(img, row))
           IN {<<row, last_edge + t>> : t \in {u \in 0 .. edge_thickness - 1 : last_edge + u < w}}
           : row \in RowsOf(img)}

view_from_right(img, w) ==
    UNION {LET last_edge == SetMax(RowPixels(img, row))
           IN {<<row, last_edge - t>> : t \in {u \in 0 .. edge_thickness - 1 : last_edge - u >= 0}}
           : row \in RowsOf(img)}

\* np.intersect1d(edge_positions, vertical_positions) is the row of img \cap mask
view_from_left_vertical(img, mask, w) == view_from_left(img \cap mask, w)
view_from_right_vertical(img, mask, w) == view_from_right(img \cap mask, w)

get_4_directional_projections(img, h, w) ==
    LET vertical_edge_mask == create_vertical_edge_mask(img, h, w)
    IN [view_from_top |-> view_from_top(img, h),
        view_from_bottom |-> view_from_bottom(img, h),
        view_from_left |-> view_from_left(img, w),
        view_from_right |-> view_from_right(img, w),
        view_from_left_vertical |-> view_from_left_vertical(img, vertical_edge_mask, w),
        view_from_right_vertical |-> view_from_right_vertical(img, vertical_edge_mask, w),
        vertical_edge_mask |-> vertical_edge_mask]

\* for direction, edge_img in projections.items(): bitwise_or
CombineProjections(proj) == UNION {proj[k] : k \in DOMAIN proj}

\* the box of the nonzero pixels of a non-empty raster
BoxOf(combined) ==
    LET top == SetMin(RowsOf(combined))
        bottom == SetMax(RowsOf(combined))
        left == SetMin(ColsOf(combined))
        right == SetMax(ColsOf(combined))
    IN [kind |-> "Box", top |-> top, bottom |-> bottom, left |-> left,
        right |-> right, height |-> bottom - top, width |-> right - left]

BoundaryBoxWholeImage(combined, height, width) ==
    IF combined = {}
    THEN [kind |-> "Box", top |-> 0, bottom |-> height - 1, left |-> 0,
          right |-> width - 1, height |-> height - 1, width |-> width - 1]
    ELSE BoxOf(combined)

\* coords = np.where(combined_boundary > 0); None when there are none
BoundaryBox(combined, height, width) ==
    IF combined = {} THEN None ELSE BoxOf(combined)

\* ------------------------------------------------------------------------
\* _detect_vertical_lines_column_based
\* ------------------------------------------------------------------------
NoCol == -1     \* stands for None where the source holds a column or None

\* for pos in vertical_x_positions: keep pos when more than 5 from the last kept
RECURSIVE CleanPositions(_, _)
CleanPositions(positions, cleaned) ==
    IF positions = <<>> THEN cleaned
    ELSE LET pos == Head(positions)
         IN IF cleaned = <<>> \/ Abs(pos - cleaned[Len(cleaned)]) > 5
            THEN CleanPositions(Tail(positions), Append(cleaned, pos))
            ELSE CleanPositions(Tail(positions), cleaned)

\* left_pixels > height * 0.1
StrongColumn(count, h) == 10 * count > h

detect_vertical_lines_column_based(proj, h) ==
    LET left_vertical == proj.view_from_left_vertical
        right_vertical == proj.view_from_right_vertical
        vertical_x_positions ==
            {col \in ColsOf(left_vertical) \cup ColsOf(right_vertical) :
                \/ StrongColumn(Cardinality(ColPixels(left_vertical, col)), h)
                \/ StrongColumn(Cardinality(ColPixels(right_vertical, col)), h)}
        cleaned_positions == CleanPositions(SortedSeq(vertical_x_positions), <<>>)
    IN [vertical_line_positions |-> cleaned_positions,
        leftmost_vertical |-> IF cleaned_positions # <<>> THEN cleaned_positions[1] ELSE NoCol,
        rightmost_vertical |-> IF cleaned_positions # <<>>
                               THEN cleaned_positions[Len(cleaned_positions)] ELSE NoCol,
        num_vertical_lines |-> Len(cleaned_positions)]

\* ------------------------------------------------------------------------
\* _extract_lines_from_side: the scan state is the list of finished lines,
\* current_line (<<>> for None, <<line>> otherwise) and gap_count.
\* ------------------------------------------------------------------------
NewLine(x, y) == [start_x |-> x, start_y |-> y, end_y |-> y, length |-> 1]
ExtendLine(line, y) == [line EXCEPT !.end_y = y, !.length = y - line.start_y + 1]
KeepLineAlways(lines, line) == Append(lines, line)

\* if current_line['length'] >= MIN_LINE_LENGTH: lines.append(...)
KeepLine(lines, line) ==
    IF line.length >= MIN_LINE_LENGTH THEN Append(lines, line) ELSE lines

\* with no open line the loop body does nothing on a blank row: the next
\* row that changes the scan state is the next foreground row
NextRow(rows, y, h) ==
    IF \E r \in rows : r > y THEN SetMin({r \in rows : r > y}) ELSE h

GapToleratedStrict(gap_count, gaptol) == gap_count < gaptol

\* if gap_count <= gap_tolerance, after gap_count += 1
GapTolerated(gap_count, gaptol) == gap_count <= gaptol

\* for y in range(height): one row of the scan, then the rest of the rows
RECURSIVE SideScan(_, _, _, _, _, _, _, _, _)
SideScan(projection, side, xtol, gaptol, y, h, lines, current_line, gap_count) ==
    IF y >= h THEN [lines |-> lines, current_line |-> current_line]
    ELSE LET row_pixels == RowPixels(projection, y)
         IN IF row_pixels # {}
            THEN LET x_coord == IF side = "left" THEN SetMin(row_pixels) ELSE SetMax(row_pixels)
                 IN IF current_line = <<>>
                    THEN SideScan(projection, side, xtol, gaptol, y + 1, h,
                                  lines, <<NewLine(x_coord, y)>>, 0)
                    ELSE IF Abs(x_coord - current_line[1].start_x) <= xtol
                    THEN SideScan(projection, side, xtol, gaptol, y + 1, h,
                                  lines, <<ExtendLine(current_line[1], y)>>, 0)
                    ELSE SideScan(projection, side, xtol, gaptol, y + 1, h,
                                  KeepLine(lines, current_line[1]), <<NewLine(x_coord, y)>>, 0)
            ELSE IF current_line = <<>>
                 THEN SideScan(projection, side, xtol, gaptol,
                               NextRow(RowsOf(projection), y, h), h,
                               lines, current_line, gap_count)
                 ELSE IF GapTolerated(gap_count + 1, gaptol)
                 THEN SideScan(projection, side, xtol, gaptol, y + 1, h,
                               lines, <<ExtendLine(current_line[1], y)>>, gap_count + 1)
                 ELSE SideScan(projection, side, xtol, gaptol, y + 1, h,
                               KeepLine(lines, current_line[1]), <<>>, 0)

extract_lines_from_side(projection, side, xtol, gaptol, h) ==
    LET st == SideScan(projection, side, xtol, gaptol, 0, h, <<>>, <<>>, 0)
    IN IF st.current_line # <<>> THEN KeepLine(st.lines, st.current_line[1]) ELSE st.lines

\* ------------------------------------------------------------------------
\* _extract_vertical_segments_from_column: column_data is the set of the
\* foreground rows of the column, h its length.
\* ------------------------------------------------------------------------
RECURSIVE ColumnScan(_, _, _, _, _, _, _, _)
ColumnScan(column_data, col_x, gaptol, y, h, segments, current_segment, gap_count) ==
    IF y >= h THEN [segments |-> segments, current_segment |-> current_segment]
    ELSE IF y \in column_data
         THEN IF current_segment = <<>>
              THEN ColumnScan(column_data, col_x, gaptol, y + 1, h,
                              segments, <<NewLine(col_x, y)>>, 0)
              ELSE ColumnScan(column_data, col_x, gaptol, y + 1, h,
                              segments, <<ExtendLine(current_segment[1], y)>>, 0)
         ELSE IF current_segment = <<>>
              THEN ColumnScan(column_data, col_x, gaptol, NextRow(column_data, y, h), h,
                              segments, current_segment, gap_count)
              ELSE IF GapTolerated(gap_count + 1, gaptol)
              THEN ColumnScan(column_data, col_x, gaptol, y + 1, h,
                              segments, <<ExtendLine(current_segment[1], y)>>, gap_count + 1)
              ELSE ColumnScan(column_data, col_x, gaptol, y + 1, h,
                              KeepLine(segments, current_segment[1]), <<>>, 0)

extract_vertical_segments_from_column(column_data, col_x, gaptol, h) ==
    LET st == ColumnScan(column_data, col_x, gaptol, 0, h, <<>>, <<>>, 0)
    IN IF st.current_segment # <<>>
       THEN KeepLine(st.segments, st.current_segment[1]) ELSE st.segments

\* ------------------------------------------------------------------------
\* _extract_all_vertical_segments.  projections is the dict of rasters; the
\* shape of the rasters is h, w.
\* ------------------------------------------------------------------------
\* min(end_y) - max(start_y) + 1 of two segments
OverlapLength(a, b) == Min2(a.end_y, b.end_y) - Max2(a.start_y, b.start_y) + 1

\* the raster the columns are read from; <<>> when the function returns []
UnifiedVertical(proj) ==
    IF "vertical_edge_mask" \notin DOMAIN proj
    THEN IF "view_from_left_vertical" \notin DOMAIN proj
            \/ "view_from_right_vertical" \notin DOMAIN proj
         THEN <<>>
         ELSE <<proj.view_from_left_vertical \cup proj.view_from_right_vertical>>
    ELSE <<proj.vertical_edge_mask>>

\* for col in range(width): all_segments.extend(column_segments)
RECURSIVE AllColumnSegments(_, _, _, _, _)
AllColumnSegments(unified_vertical, col, w, h, gaptol) ==
    IF col >= w THEN <<>>
    ELSE extract_vertical_segments_from_column(ColPixels(unified_vertical, col), col, gaptol, h)
         \o AllColumnSegments(unified_vertical, col + 1, w, h, gaptol)

\* similar X position and close in Y
MergesInto(segment, existing, xtol, gaptol) ==
    /\ Abs(segment.start_x - existing.start_x) <= xtol
    /\ Abs(segment.start_y - existing.end_y) <= gaptol

FilterSegment(filtered_segments, segment, xtol, gaptol) ==
    IF segment.length < MIN_LINE_LENGTH THEN filtered_segments
    ELSE LET hits == {i \in 1 .. Len(filtered_segments) :
                         MergesInto(segment, filtered_segments[i], xtol, gaptol)}
         IN IF hits = {} THEN Append(filtered_segments, segment)
            ELSE LET i == SetMin(hits)
                     existing == filtered_segments[i]
                     end_y == Max2(existing.end_y, segment.end_y)
                 IN [filtered_segments EXCEPT
                        ![i] = [existing EXCEPT !.end_y = end_y,
                                                !.length = end_y - existing.start_y + 1]]

RECURSIVE FilterSegments(_, _, _, _)
FilterSegments(all_segments, filtered_segments, xtol, gaptol) ==
    IF all_segments = <<>> THEN filtered_segments
    ELSE FilterSegments(Tail(all_segments),
                        FilterSegment(filtered_segments, Head(all_segments), xtol, gaptol),
                        xtol, gaptol)

SameThickLineNarrow(segment, other_segment) ==
    /\ Abs(segment.start_x - other_segment.start_x) <= 2
    /\ Max2(0, OverlapLength(segment, other_segment)) > 10

\* x_diff <= 5 and y_overlap > 10
SameThickLine(segment, other_segment) ==
    /\ Abs(segment.start_x - other_segment.start_x) <= 5
    /\ Max2(0, OverlapLength(segment, other_segment)) > 10

LogicalSegment(filtered_segments, group) ==
    LET min_x == SetMin({filtered_segments[j].start_x : j \in group})
        max_x == SetMax({filtered_segments[j].start_x : j \in group})
        min_y == SetMin({filtered_segments[j].start_y : j \in group})
        max_y == SetMax({filtered_segments[j].end_y : j \in group})
    IN [start_x |-> (min_x + max_x) \div 2,
        start_y |-> min_y,
        end_y |-> max_y,
        length |-> max_y - min_y + 1,
        thickness |-> max_x - min_x + 1,
        component_count |-> Cardinality(group)]

RECURSIVE GroupThickLinesReusing(_, _, _, _)
GroupThickLinesReusing(filtered_segments, i, used_segments, logical_segments) ==
    IF i > Len(filtered_segments) THEN logical_segments
    ELSE IF i \in used_segments
         THEN GroupThickLinesReusing(filtered_segments, i + 1, used_segments, logical_segments)
         ELSE LET line_group ==
                      {i} \cup {j \in 1 .. Len(filtered_segments) :
                                   /\ j # i
                                   /\ SameThickLine(filtered_segments[i], filtered_segments[j])}
              IN GroupThickLinesReusing(filtered_segments, i + 1, used_segments \cup line_group,
                                        Append(logical_segments,
                                               LogicalSegment(filtered_segments, line_group)))

\* for i, segment in enumerate(filtered_segments)
RECURSIVE GroupThickLines(_, _, _, _)
GroupThickLines(filtered_segments, i, used_segments, logical_segments) ==
    IF i > Len(filtered_segments) THEN logical_segments
    ELSE IF i \in used_segments
         THEN GroupThickLines(filtered_segments, i + 1, used_segments, logical_segments)
         ELSE LET line_group ==
                      {i} \cup {j \in 1 .. Len(filtered_segments) :
                                   /\ j \notin used_segments
                                   /\ j # i
                                   /\ SameThickLine(filtered_segments[i], filtered_segments[j])}
              IN GroupThickLines(filtered_segments, i + 1, used_segments \cup line_group,
                                 Append(logical_segments,
                                        LogicalSegment(filtered_segments, line_group)))

extract_all_vertical_segments(proj, xtol, gaptol, h, w) ==
    LET unified_vertical == UnifiedVertical(proj)
    IN IF unified_vertical = <<>> THEN <<>>
       ELSE LET all_segments == AllColumnSegments(unified_vertical[1], 0, w, h, gaptol)
                filtered_segments == FilterSegments(all_segments, <<>>, xtol, gaptol)
            IN GroupThickLines(filtered_segments, 1, {}, <<>>)

\* ------------------------------------------------------------------------
\* _find_matching_left_right_segments
\* ------------------------------------------------------------------------
PotentialMatchesStrict(left_lines, right_lines) ==
    LET all == [n \in 1 .. Len(left_lines) * Len(right_lines) |->
                   LET li == ((n - 1) \div Len(right_lines)) + 1
                       ri == ((n - 1) % Len(right_lines)) + 1
                   IN [left_idx |-> li, right_idx |-> ri,
                       overlap_length |-> OverlapLength(left_lines[li], right_lines[ri])]]
    IN SelectSeq(all, LAMBDA m : m.overlap_length > MIN_OVERLAP)

\* potential_matches in the order of the two nested loops
PotentialMatches(left_lines, right_lines) ==
    LET all == [n \in 1 .. Len(left_lines) * Len(right_lines) |->
                   LET li == ((n - 1) \div Len(right_lines)) + 1
                       ri == ((n - 1) % Len(right_lines)) + 1
                   IN [left_idx |-> li, right_idx |-> ri,
                       overlap_length |-> OverlapLength(left_lines[li], right_lines[ri])]]
    IN SelectSeq(all, LAMBDA m : m.overlap_length >= MIN_OVERLAP)

StaysBeforeAscending(earlier, m) == earlier.overlap_length <= m.overlap_length

\* reverse=True on the key overlap_length: an element already placed stays in
\* front of a later one unless the later one has a larger overlap
StaysBefore(earlier, m) == earlier.overlap_length >= m.overlap_length

\* list.sort(key=overlap_length, reverse=True): stable, larger key first
RECURSIVE InsertByOverlap(_, _)
InsertByOverlap(sorted, m) ==
    IF sorted = <<>> THEN <<m>>
    ELSE IF StaysBefore(Head(sorted), m)
         THEN <<Head(sorted)>> \o InsertByOverlap(Tail(sorted), m)
         ELSE <<m>> \o sorted

RECURSIVE SortByOverlapDesc(_, _)
SortByOverlapDesc(ms, sorted) ==
    IF ms = <<>> THEN sorted
    ELSE SortByOverlapDesc(Tail(ms), InsertByOverlap(sorted, Head(ms)))

TakeMatchLeftOnly(m, used_left, used_right) == m.left_idx \notin used_left

\* greedy commit: a match is taken when both of its segments are still free
TakeMatch(m, used_left, used_right) ==
    m.left_idx \notin used_left /\ m.right_idx \notin used_right

RECURSIVE GreedyMatch(_, _, _, _)
GreedyMatch(ms, used_left, used_right, matched_pairs) ==
    IF ms = <<>> THEN matched_pairs
    ELSE LET m == Head(ms)
         IN IF TakeMatch(m, used_left, used_right)
            THEN GreedyMatch(Tail(ms), used_left \cup {m.left_idx},
                             used_right \cup {m.right_idx},
                             Append(matched_pairs, <<m.left_idx, m.right_idx>>))
            ELSE GreedyMatch(Tail(ms), used_left, used_right, matched_pairs)

find_matching_left_right_segments(left_lines, right_lines) ==
    GreedyMatch(SortByOverlapDesc(PotentialMatches(left_lines, right_lines), <<>>),
                {}, {}, <<>>)

extract_vertical_line_segments(proj, h) ==
    LET left_lines == extract_lines_from_side(proj.view_from_left_vertical, "left",
                                              x_tolerance, gap_tolerance, h)
        right_lines == extract_lines_from_side(proj.view_from_right_vertical, "right",
                                               x_tolerance, gap_tolerance, h)
    IN [left_lines |-> left_lines,
        right_lines |-> right_lines,
        matched_pairs |-> find_matching_left_right_segments(left_lines, right_lines)]

\* ------------------------------------------------------------------------
\* constraint_matched_for_pair.  The quotients are floats in the source;
\* value/hw and its rounding int(value/hw + 0.5) are compared here on the
\* integers: |value/hw - r| <= 0.01  iff  100 * |value - r*hw| <= hw.
\* ------------------------------------------------------------------------
min_width == 40
max_width == 80
err == 3

RoundDiv(value, hw) == (2 * value + hw) \div (2 * hw)       \* int(value/hw + 0.5)
close_enough(value, hw) == 100 * Abs(value - RoundDiv(value, hw) * hw) <= hw

SpanFits(span_width, hw) == close_enough(span_width, hw)
FullTiles(image_width, hw) == close_enough(image_width, hw)
HalfTilesLoose(image_width, hw) ==
    10 * Abs(2 * image_width - RoundDiv(2 * image_width, hw) * hw) <= hw

HalfTiles(image_width, hw) == close_enough(2 * image_width, hw)

\* the widths of the search window that pass all the checks of the loop body
MatchingWidths(cols, span_width, image_width) ==
    LET midhw == image_width \div cols
    IN {hw \in (midhw - err) .. (midhw + err) :
           /\ hw >= min_width
           /\ hw <= max_width
           /\ SpanFits(span_width, hw)
           /\ FullTiles(image_width, hw) \/ HalfTiles(image_width, hw)}

constraint_matched_for_pair(cols, lx, rx, image_width) ==
    LET span_width == rx - lx
    IN IF span_width <= 0
       THEN [matched |-> FALSE, needs_half_col |-> FALSE, hex_width |-> 0]
       ELSE LET ok == MatchingWidths(cols, span_width, image_width)
            IN IF ok = {}
               THEN [matched |-> FALSE, needs_half_col |-> FALSE, hex_width |-> -1]
               ELSE LET hw == SetMin(ok)     \* the first width of the loop that returns
                    IN [matched |-> TRUE,
                        needs_half_col |-> FullTiles(image_width, hw),
                        hex_width |-> hw]

\* ------------------------------------------------------------------------
\* _solve_constraints_from_matched_pairs
\* ------------------------------------------------------------------------
ColumnRange == 5 .. 99        \* range(5, 100)

\* the first (lx, rx) of the two nested window loops that matches, if any
WindowHits(numcols, left_x, right_x, image_width, margin) ==
    {w \in ((left_x - margin) .. (left_x + margin)) \X ((right_x - margin) .. (right_x + margin)) :
        constraint_matched_for_pair(numcols, w[1], w[2], image_width).matched}

FirstHit(hits) ==
    LET lx == SetMin({w[1] : w \in hits})
    IN <<lx, SetMin({w[2] : w \in {v \in hits : v[1] = lx}})>>

\* the loop over matched_pairs for one numcols; col_matched is never reset
\* inside it, so the lx loop of every later pair breaks at once
RECURSIVE PairScan(_, _, _, _, _, _, _)
PairScan(pairs, numcols, left_lines, right_lines, image_width, margin, acc) ==
    IF pairs = <<>> THEN acc
    ELSE LET pair == Head(pairs)
             hits == WindowHits(numcols, left_lines[pair[1]].start_x,
                                right_lines[pair[2]].start_x, image_width, margin)
         IN IF acc.col_matched \/ hits = {}
            THEN PairScan(Tail(pairs), numcols, left_lines, right_lines, image_width, margin, acc)
            ELSE LET w == FirstHit(hits)
                     m == constraint_matched_for_pair(numcols, w[1], w[2], image_width)
                 IN PairScan(Tail(pairs), numcols, left_lines, right_lines, image_width, margin,
                             [matched |-> acc.matched \cup {<<pair[1], pair[2], m.hex_width>>},
                              needs_half |-> m.needs_half_col,
                              col_matched |-> TRUE])

ColsMatched(matched_pairs, left_lines, right_lines, image_width, margin) ==
    [numcols \in ColumnRange |->
        PairScan(matched_pairs, numcols, left_lines, right_lines, image_width, margin,
                 [matched |-> {}, needs_half |-> FALSE, col_matched |-> FALSE])]

\* iteration over a Python set: some fixed order
RECURSIVE SetToSeq(_)
SetToSeq(S) ==
    IF S = {} THEN <<>>
    ELSE LET e == CHOOSE e \in S : TRUE IN <<e>> \o SetToSeq(S \ {e})

Candidate(numcols, entry) ==
    LET evidence == SetToSeq(entry.matched)
        supporting_pairs == [i \in 1 .. Len(evidence) |-> <<evidence[i][1], evidence[i][2]>>]
        hex_widths == [i \in 1 .. Len(evidence) |-> evidence[i][3]]
    IN [cols |-> numcols,
        supporting_pairs |-> supporting_pairs,
        num_supporting_pairs |-> Len(supporting_pairs),
        hex_width_samples |-> hex_widths,
        avg_hex_width |-> <<SeqSum(hex_widths), Len(hex_widths)>>,
        has_half_tile |-> entry.needs_half,
        confidence |-> Len(supporting_pairs)]

\* sort(key=(confidence, -cols), reverse=True): a sorts before b when its key is larger
CandidateBefore(a, b) ==
    \/ a.confidence > b.confidence
    \/ a.confidence = b.confidence /\ -a.cols > -b.cols

RECURSIVE InsertCandidate(_, _)
InsertCandidate(sorted, c) ==
    IF sorted = <<>> THEN <<c>>
    ELSE IF CandidateBefore(c, Head(sorted))
         THEN <<c>> \o sorted
         ELSE <<Head(sorted)>> \o InsertCandidate(Tail(sorted), c)

RECURSIVE SortCandidates(_, _)
SortCandidates(cs, sorted) ==
    IF cs = <<>> THEN sorted
    ELSE SortCandidates(Tail(cs), InsertCandidate(sorted, Head(cs)))

solve_constraints_from_matched_pairs(matched_pairs, left_lines, right_lines, image_width, margin) ==
    LET cols_matched == ColsMatched(matched_pairs, left_lines, right_lines, image_width, margin)
        keys == SortedSeq({n \in ColumnRange : cols_matched[n].matched # {}})
        unsorted == [i \in 1 .. Len(keys) |-> Candidate(keys[i], cols_matched[keys[i]])]
        column_candidates == SortCandidates(unsorted, <<>>)
    IN [kind |-> "Candidates",
        column_candidates |-> column_candidates,
        top_candidate |-> IF column_candidates # <<>> THEN <<column_candidates[1]>> ELSE <<>>,
        total_candidates |-> Len(column_candidates)]

\* ------------------------------------------------------------------------
\* _measure_boundary_spans
\* ------------------------------------------------------------------------
measure_boundary_spans(boundary_img, vlines) ==
    IF boundary_img = {}
    THEN [max_horizontal_span |-> 0, max_vertical_span |-> 0]
    ELSE LET vertical_spans ==
                 {SetMax(ColPixels(boundary_img, col)) - SetMin(ColPixels(boundary_img, col)) :
                     col \in {c \in ColsOf(boundary_img) : Cardinality(ColPixels(boundary_img, c)) >= 2}}
             horizontal_spans ==
                 {SetMax(RowPixels(boundary_img, row)) - SetMin(RowPixels(boundary_img, row)) :
                     row \in {r \in RowsOf(boundary_img) : Cardinality(RowPixels(boundary_img, r)) >= 2}}
         IN [max_horizontal_span |->
                 IF vlines.leftmost_vertical # NoCol /\ vlines.rightmost_vertical # NoCol
                 THEN vlines.rightmost_vertical - vlines.leftmost_vertical
                 ELSE IF horizontal_spans # {} THEN SetMax(horizontal_spans) ELSE 0,
             max_vertical_span |-> IF vertical_spans # {} THEN SetMax(vertical_spans) ELSE 0]

\* ------------------------------------------------------------------------
\* _brute_force_constraint_solving.  total_error holds halves
\* (hex_width/2), so the errors are kept doubled.
\* ------------------------------------------------------------------------
BruteCols == 5 .. 99          \* range(5, 100)
BruteWidths == 30 .. 99       \* range(30, 100)

TotalError2(cols, hex_width, measured_span, total_width) ==
    LET span_error2 == 2 * Abs(measured_span - (cols - 1) * hex_width)
        width_error_1 == 2 * Abs(total_width - cols * hex_width)
        width_error_2 == Abs(2 * total_width - (2 * cols * hex_width + hex_width))
    IN span_error2 + Min2(width_error_1, width_error_2)

BetterOrEqual(total_error2, best_error2) == total_error2 <= best_error2

\* if total_error < best_error: a later configuration replaces the best one
\* only when its error is strictly smaller
Better(total_error2, best_error2) == total_error2 < best_error2

\* the configuration the scan of a sequence of errors ends with: it replaced
\* every earlier one and was replaced by no later one
ScanWinner(errs, keys) ==
    CHOOSE k \in keys :
        /\ \A a \in keys : a < k => Better(errs[k], errs[a])
        /\ \A b \in keys : b > k => ~Better(errs[b], errs[k])

BeatsInitialZero(total_error2) == total_error2 < 0

\* the first comparison is against best_error = float('inf')
BeatsInitial(total_error2) == TRUE

\* for cols in range(5, 100): for hex_width in range(30, 100)
BruteScan(measured_span, total_width) ==
    LET errs == [c \in BruteCols |-> [hw \in BruteWidths |->
                     TotalError2(c, hw, measured_span, total_width)]]
        width_of == [c \in BruteCols |-> ScanWinner(errs[c], BruteWidths)]
        col_errs == [c \in BruteCols |-> errs[c][width_of[c]]]
        cols == ScanWinner(col_errs, BruteCols)
    IN IF \A c \in BruteCols : \A hw \in BruteWidths : ~BeatsInitial(errs[c][hw])
       THEN <<>>
       ELSE <<[cols |-> cols, hex_width |-> width_of[cols], total_error2 |-> col_errs[cols]]>>

FixedFallback ==
    [hex_side_length |-> 60, cols |-> DEFAULT_NUM_STARTING_COLS, rows |-> DEFAULT_NUM_STARTING_ROWS]

brute_force_constraint_solving(measured_span, total_width, total_height) ==
    LET best == BruteScan(measured_span, total_width)
    IN IF best = <<>> THEN FixedFallback
       ELSE [cols |-> best[1].cols,
             hex_width |-> best[1].hex_width,
             center_spacing |-> best[1].hex_width,
             total_error |-> <<best[1].total_error2, 2>>]

\* ------------------------------------------------------------------------
\* _find_continuous_segments, _group_vertical_segments, _count_vertical_segments
\* ------------------------------------------------------------------------
\* the runs of consecutive foreground rows of one column, top to bottom
find_continuous_segments(ys) ==
    LET starts == SortedSeq({y \in ys : (y - 1) \notin ys})
    IN [i \in 1 .. Len(starts) |->
           LET end == SetMin({e \in ys : e >= starts[i] /\ (e + 1) \notin ys})
           IN [start |-> starts[i], end |-> end, length |-> end - starts[i] + 1]]

RECURSIVE ConcatAll(_)
ConcatAll(ss) == IF ss = <<>> THEN <<>> ELSE Head(ss) \o ConcatAll(Tail(ss))

ColumnSegments(combined) ==
    LET cols == SortedSeq(ColsOf(combined))
    IN ConcatAll([i \in 1 .. Len(cols) |-> find_continuous_segments(ColPixels(combined, cols[i]))])

\* sorted(values): position i holds the value with fewer than i values below
\* it and at least i values not above it
Sorted(vs) ==
    [i \in 1 .. Len(vs) |->
        CHOOSE v \in {vs[j] : j \in 1 .. Len(vs)} :
            /\ Cardinality({j \in 1 .. Len(vs) : vs[j] < v}) < i
            /\ Cardinality({j \in 1 .. Len(vs) : vs[j] <= v}) >= i]

SignificantGapInclusive(gap2, total_height) == 15 * gap2 >= 2 * total_height

\* gap > total_height / 15, on the doubled centres start + end
SignificantGap(gap2, total_height) == 15 * gap2 > 2 * total_height

\* the number of levels returned (the source returns one mock group per level)
group_vertical_segments(segments, total_height) ==
    IF segments = <<>> THEN 0
    ELSE LET centers2 == [i \in 1 .. Len(segments) |-> segments[i].start + segments[i].end]
             sorted_centers == Sorted(centers2)
             significant_gaps ==
                 {i \in 1 .. Len(sorted_centers) - 1 :
                     SignificantGap(sorted_centers[i + 1] - sorted_centers[i], total_height)}
         IN Cardinality(significant_gaps) + 1

LongSegment(seg) == seg.length > 20

RowResultNoFloor(row_count) ==
    IF row_count > MAX_ROWS
    THEN [raised |-> TRUE, rows |-> 0, row_count |-> row_count]
    ELSE [raised |-> FALSE, rows |-> row_count, row_count |-> row_count]

\* return max(5, row_count), or the raise when row_count > MAX_ROWS
RowResult(row_count) ==
    IF row_count > MAX_ROWS
    THEN [raised |-> TRUE, rows |-> 0, row_count |-> row_count]
    ELSE [raised |-> FALSE, rows |-> Max2(5, row_count), row_count |-> row_count]

\* _count_vertical_segments from the point where the column segments are known
CountFromSegments(vertical_segments, height) ==
    IF Len(vertical_segments) = 0
    THEN [raised |-> FALSE, rows |-> 7, row_count |-> 0]
    ELSE RowResult(group_vertical_segments(SelectSeq(vertical_segments, LongSegment), height))

count_vertical_segments(combined, height, width) ==
    IF height * width = 0
    THEN [raised |-> FALSE, rows |-> 7, row_count |-> 0]
    ELSE CountFromSegments(ColumnSegments(combined), height)

\* ------------------------------------------------------------------------
\* _solve_hex_constraints
\* ------------------------------------------------------------------------
UsesVerticalLines(vlines) ==
    /\ Len(vlines.vertical_line_positions) >= 2
    /\ vlines.leftmost_vertical # NoCol
    /\ vlines.rightmost_vertical # NoCol

LineSolution(vlines) ==
    LET vertical_positions == vlines.vertical_line_positions
        spacings == [i \in 1 .. Len(vertical_positions) - 1 |->
                        vertical_positions[i + 1] - vertical_positions[i]]
        hex_width == IF spacings # <<>> THEN SeqSum(spacings) \div Len(spacings) ELSE 60
    IN [cols |-> Len(vertical_positions),
        hex_width |-> hex_width,
        center_spacing |-> hex_width,
        total_error |-> <<0, 1>>]

\* (total_height - hex_height) / (rows - 1), else hex_height * 0.75
VerticalSpacing(total_height, hex_height, rows) ==
    IF rows > 1 THEN <<total_height - hex_height, rows - 1>> ELSE <<3 * hex_height, 4>>

\* an exception leaving the analysis: raising a str is a TypeError, and
\* best_solution['hex_width'] on the fixed fallback dict is a KeyError
Raised(what) == [kind |-> "Raised", what |-> what]

solve_hex_constraints(measured_span, total_width, total_height, combined, vlines, height, width) ==
    LET best_solution ==
            IF UsesVerticalLines(vlines) THEN LineSolution(vlines)
            ELSE brute_force_constraint_solving(measured_span, total_width, total_height)
        hex_height == best_solution.hex_width * HEIGHT_FACTOR
        counted == count_vertical_segments(combined, height, width)
    IN IF "hex_width" \notin DOMAIN best_solution THEN Raised("KeyError")
       ELSE IF counted.raised THEN Raised("TypeError")
       ELSE [cols |-> best_solution.cols,
             hex_width |-> best_solution.hex_width,
             center_spacing |-> best_solution.center_spacing,
             total_error |-> best_solution.total_error,
             rows |-> counted.rows,
             hex_height |-> hex_height,
             hex_side_length |-> best_solution.hex_width,
             vertical_spacing |-> VerticalSpacing(total_height, hex_height, counted.rows)]

\* ------------------------------------------------------------------------
\* _calculate_grid_from_boundaries
\* ------------------------------------------------------------------------
calculate_grid_from_expected_tiles(box, solution, expected_tiles) ==
    LET hex_width == Get(solution, "hex_width", 60)
        hex_height == Get(solution, "hex_height", hex_width * HEIGHT_FACTOR)
    IN [hex_width |-> hex_width,
        hex_height |-> hex_height,
        rows |-> Get(solution, "rows", DEFAULT_NUM_STARTING_ROWS),
        cols |-> expected_tiles,
        row_offset |-> hex_width \div 2,
        start_x |-> box.left + hex_width \div 2,
        start_y |-> box.top + hex_height \div 2,
        spacing_x |-> hex_width,
        spacing_y |-> Get(solution, "vertical_spacing", <<3 * hex_height, 4>>)]

\* expected_tiles is a parameter of the function and is not read by it
calculate_grid_from_boundaries(box, solution, expected_tiles) ==
    LET cols == Get(solution, "cols", DEFAULT_NUM_STARTING_COLS)
        rows == Get(solution, "rows", DEFAULT_NUM_STARTING_ROWS)
        hex_width == Get(solution, "hex_width", 60)
        hex_height == Get(solution, "hex_height", hex_width * HEIGHT_FACTOR)
        center_spacing == Get(solution, "center_spacing", hex_width)
        spacing_x == center_spacing
        spacing_y == Get(solution, "vertical_spacing", <<3 * hex_height, 4>>)
    IN [hex_width |-> hex_width,
        hex_height |-> hex_height,
        rows |-> rows,
        cols |-> cols,
        row_offset |-> spacing_x \div 2,
        start_x |-> box.left + hex_width \div 2,
        start_y |-> box.top + hex_height \div 2,
        spacing_x |-> spacing_x,
        spacing_y |-> spacing_y]

\* ------------------------------------------------------------------------
\* Inputs of the analysis: edge rasters made of one-pixel-wide vertical
\* walls.  A wall is [x, y0, y1].
\* ------------------------------------------------------------------------
MaxWalls == 5          \* walls of an evenly spaced raster
MaxStairs == 6         \* walls of a staggered raster

WallPixels(wall) == {<<y, wall.x>> : y \in wall.y0 .. wall.y1}
ScenePixels(sc) == UNION {WallPixels(sc.walls[i]) : i \in 1 .. Len(sc.walls)}

EmptyScenes ==
    {[kind |-> "empty", height |-> h, width |-> w, n |-> 0, spacing |-> 0, walls |-> <<>>] :
        h \in {30, 48}, w \in {30, 200}}

\* n walls, spacing s apart, all with the y-extent ext, margin x0 on both sides
EvenScenes ==
    {[kind |-> "even", height |-> 30, width |-> 2 * x0 + (n - 1) * s + 1,
      n |-> n, spacing |-> s,
      walls |-> [i \in 1 .. n |-> [x |-> x0 + (i - 1) * s, y0 |-> ext[1], y1 |-> ext[2]]]] :
        n \in 1 .. MaxWalls, s \in {6, 7, 8, 12}, x0 \in {0, 3},
        ext \in {<<2, 27>>, <<5, 14>>, <<0, 29>>}}

\* n walls 8 apart, each 22 rows tall and starting step rows below the previous,
\* in a raster one row taller than the lowest wall
StairScenes ==
    {[kind |-> "stairs", height |-> step * (n - 1) + 23, width |-> 8 * n, n |-> n, spacing |-> 8,
      walls |-> [i \in 1 .. n |-> [x |-> 3 + 8 * (i - 1), y0 |-> step * (i - 1),
                                   y1 |-> step * (i - 1) + 21]]] :
        n \in 2 .. MaxStairs, step \in {4, 5}}

\* two tall walls in a raster wide enough for the 40..80 px hex widths
WideScenes ==
    {[kind |-> "wide", height |-> 30, width |-> w, n |-> 2, spacing |-> rx - 10,
      walls |-> <<[x |-> 10, y0 |-> 2, y1 |-> 27], [x |-> rx, y0 |-> 2, y1 |-> 27]>>] :
        w \in {200, 240}, rx \in {130, 134, 150}}

\* two walls of 22 rows in a raster so tall that no column holds more than a
\* tenth of its height
SparseScenes ==
    {[kind |-> "sparse", height |-> 220, width |-> 200, n |-> 2, spacing |-> rx - 10,
      walls |-> <<[x |-> 10, y0 |-> 100, y1 |-> 121], [x |-> rx, y0 |-> 100, y1 |-> 121]>>] :
        rx \in {130, 150}}

Scenes == EmptyScenes \cup EvenScenes \cup StairScenes \cup WideScenes \cup SparseScenes

\* ------------------------------------------------------------------------
\* analyze_grid_structure, stage by stage
\* ------------------------------------------------------------------------
Idle ==
    /\ projections = None
    /\ combined_boundary = {}
    /\ boundaries = None
    /\ vertical_lines = None
    /\ line_segments = None
    /\ constraint_solution = None
    /\ grid_solution = None
    /\ stages = {}
    /\ outcome = None

\* the call analyze_grid_structure(image, expected_tiles)
AnalysisCall(scenes, tiles) ==
    /\ pc = "start"
    /\ scene \in scenes
    /\ shape = [height |-> scene.height, width |-> scene.width]
    /\ edges = ScenePixels(scene)
    /\ Idle
    /\ args \in {[expected_tiles |-> e] : e \in tiles}
    /\ result = None

DefaultExpectedTiles == 34      \* --expected-tiles default of main

Init == AnalysisCall(Scenes, {DefaultExpectedTiles})

\* _find_map_boundaries, line 86
Project ==
    /\ pc = "start"
    /\ projections' = get_4_directional_projections(edges, shape.height, shape.width)
    /\ stages' = stages \cup {"projections"}
    /\ pc' = "projected"
    /\ UNCHANGED <<scene, shape, edges, combined_boundary, boundaries, vertical_lines,
                   line_segments, constraint_solution, grid_solution, outcome, args, result>>

\* _find_map_boundaries, lines 91-114, and the caller's `if not boundaries`
CombineBoundary ==
    /\ pc = "projected"
    /\ combined_boundary' = CombineProjections(projections)
    /\ boundaries' = BoundaryBox(combined_boundary', shape.height, shape.width)
    /\ stages' = stages \cup {"boundary"}
    /\ IF boundaries' = None
       THEN pc' = "done" /\ outcome' = [kind |-> "NoBoundaryFound"]
       ELSE pc' = "geometry" /\ outcome' = outcome
    /\ UNCHANGED <<scene, shape, edges, projections, vertical_lines, line_segments,
                   constraint_solution, grid_solution, args, result>>

\* _analyze_hex_geometry, line 260
DetectVerticalLines ==
    /\ pc = "geometry"
    /\ vertical_lines' = detect_vertical_lines_column_based(projections, shape.height)
    /\ stages' = stages \cup {"geometry"}
    /\ pc' = "lines"
    /\ UNCHANGED <<scene, shape, edges, projections, combined_boundary, boundaries,
                   line_segments, constraint_solution, grid_solution, outcome, args, result>>

\* _analyze_hex_geometry, line 264
ExtractLineSegments ==
    /\ pc = "lines"
    /\ line_segments' = extract_vertical_line_segments(projections, shape.height)
    /\ pc' = "segments"
    /\ UNCHANGED <<scene, shape, edges, projections, combined_boundary, boundaries,
                   vertical_lines, constraint_solution, grid_solution, stages, outcome,
                   args, result>>

\* _analyze_hex_geometry, lines 295-304
SolveMatchedPairs ==
    /\ pc = "segments"
    /\ IF line_segments.matched_pairs # <<>>
       THEN /\ constraint_solution' =
                   solve_constraints_from_matched_pairs(line_segments.matched_pairs,
                       line_segments.left_lines, line_segments.right_lines,
                       shape.width, error_margin)
            /\ stages' = stages \cup {"strategy_a"}
       ELSE UNCHANGED <<constraint_solution, stages>>
    /\ pc' = "paired"
    /\ UNCHANGED <<scene, shape, edges, projections, combined_boundary, boundaries,
                   vertical_lines, line_segments, grid_solution, outcome, args, result>>

\* _analyze_hex_geometry, lines 306-322; an exception leaves the analysis
SolveHexConstraints ==
    /\ pc = "paired"
    /\ LET span_measurements == measure_boundary_spans(combined_boundary, vertical_lines)
       IN grid_solution' = solve_hex_constraints(span_measurements.max_horizontal_span,
                               boundaries.width, boundaries.height, combined_boundary,
                               vertical_lines, shape.height, shape.width)
    /\ stages' = stages \cup {"solver"} \cup
                 (IF UsesVerticalLines(vertical_lines) THEN {} ELSE {"brute_force"})
    /\ IF "kind" \in DOMAIN grid_solution'
       THEN pc' = "done" /\ outcome' = grid_solution'
       ELSE pc' = "solved" /\ outcome' = outcome
    /\ UNCHANGED <<scene, shape, edges, projections, combined_boundary, boundaries,
                   vertical_lines, line_segments, constraint_solution, args, result>>

\* analyze_grid_structure, lines 66-71
CalculateGrid ==
    /\ pc = "solved"
    /\ outcome' = [kind |-> "GridParams",
                   params |-> calculate_grid_from_boundaries(boundaries, grid_solution,
                                                             args.expected_tiles)]
    /\ pc' = "done"
    /\ UNCHANGED <<scene, shape, edges, projections, combined_boundary, boundaries,
                   vertical_lines, line_segments, constraint_solution, grid_solution,
                   stages, args, result>>

Next ==
    \/ Project
    \/ CombineBoundary
    \/ DetectVerticalLines
    \/ ExtractLineSegments
    \/ SolveMatchedPairs
    \/ SolveHexConstraints
    \/ CalculateGrid

Spec == Init /\ [][Next]_vars

\* ------------------------------------------------------------------------
\* Properties of the analysis (specification Spec)
\* ------------------------------------------------------------------------
GeometryStages == {"geometry", "strategy_a", "solver", "brute_force"}
Returned == outcome.kind = "GridParams"
TallWalls == \A i \in 1 .. Len(scene.walls) : scene.walls[i].y1 - scene.walls[i].y0 + 1 >= 20

\* C1: once the boundary image has been combined and holds no foreground
\* pixel, the analysis is over with NoBoundaryFound: no GridParams, no other
\* fault, and none of the geometry or solver stages has run.
C1_EmptyBoundaryFails ==
    (pc \notin {"start", "projected"} /\ combined_boundary = {}) =>
        /\ pc = "done"
        /\ outcome = [kind |-> "NoBoundaryFound"]
        /\ stages \cap GeometryStages = {}

C1_Witness ==
    /\ pc = "done"
    /\ edges = {}
    /\ "boundary" \in stages
    /\ outcome.kind = "NoBoundaryFound"

\* C2: for N >= 5 evenly spaced walls of the same y-extent (tall enough to
\* count as vertical structure), spacing s, the analysis returns GridParams
\* with cols = N and hex_width within 2 pixels of s.
C2_EvenWallsRecovered ==
    (pc = "done" /\ scene.kind = "even" /\ scene.n >= 5 /\ TallWalls) =>
        /\ Returned
        /\ outcome.params.cols = scene.n
        /\ Abs(outcome.params.hex_width - scene.spacing) <= 2

\* C3: whenever the matched-pair solver has a top candidate, the returned
\* GridParams carries that candidate's cols and hex width.
C3_StrategyADecides ==
    (Returned /\ constraint_solution.kind = "Candidates"
              /\ constraint_solution.top_candidate # <<>>) =>
        LET top == constraint_solution.top_candidate[1]
        IN /\ outcome.params.cols = top.cols
           /\ outcome.params.hex_width * top.avg_hex_width[2] = top.avg_hex_width[1]

\* C4: every returned GridParams has spacing_x > 0 and spacing_y > 0.
C4_SpacingsPositive ==
    Returned =>
        /\ outcome.params.spacing_x > 0
        /\ outcome.params.spacing_y[1] > 0

HasHexWidth(solution) == "hex_width" \in DOMAIN solution \/ "hex_side_length" \in DOMAIN solution

C7_SolverAlwaysSolves ==
    ("solver" \in stages /\ grid_solution # Raised("TypeError")) =>
        /\ {"cols", "rows"} \subseteq DOMAIN grid_solution
        /\ HasHexWidth(grid_solution)
        /\ "hex_width" \notin DOMAIN grid_solution =>
               /\ grid_solution.hex_side_length = 60
               /\ grid_solution.cols = 7
               /\ grid_solution.rows = 7

C7_Witness ==
    /\ pc = "done"
    /\ "brute_force" \in stages
    /\ Returned
    /\ outcome.params.cols \in BruteCols
    /\ outcome.params.hex_width \in BruteWidths

\* C13: the returned GridParams has start_x = left + hex_width/2,
\* start_y = top + hex_height/2, spacing_x = hex_width, spacing_y = the solved
\* vertical spacing, row_offset = spacing_x/2 and
\* hex_height = round(hex_width * HEIGHT_FACTOR); the halves are exact, also
\* for an odd hex_width.
C13_Assembler ==
    Returned =>
        LET p == outcome.params
        IN /\ 2 * p.start_x = 2 * boundaries.left + p.hex_width
           /\ 2 * p.start_y = 2 * boundaries.top + p.hex_height
           /\ p.spacing_x = p.hex_width
           /\ p.spacing_y = grid_solution.vertical_spacing
           /\ 2 * p.row_offset = p.spacing_x
           /\ p.hex_height = p.hex_width * HEIGHT_FACTOR

\* C17: the brute-force search has run only in analyses in which the
\* matched-pair solver found no candidate.
C17_BruteForceOnlyWithoutCandidate ==
    "brute_force" \in stages =>
        ~(constraint_solution.kind = "Candidates" /\ constraint_solution.top_candidate # <<>>)

\* ---- the expected_tiles hint ---------------------------------------------
MaxExpectedTiles == 3  \* largest of the small expected_tiles values

ExpectedTiles == (0 .. MaxExpectedTiles) \cup {DefaultExpectedTiles}

TileScenes == EmptyScenes \cup WideScenes \cup {sc \in EvenScenes : sc.n = 3 /\ sc.spacing = 7}

InitTiles == AnalysisCall(TileScenes, ExpectedTiles)

SpecTiles == InitTiles /\ [][Next]_vars

\* analyze_grid_structure as a function of its two arguments
analyze_grid_structure(img, h, w, expected_tiles) ==
    LET proj == get_4_directional_projections(img, h, w)
        combined == CombineProjections(proj)
        box == BoundaryBox(combined, h, w)
    IN IF box = None THEN [kind |-> "NoBoundaryFound"]
       ELSE LET vlines == detect_vertical_lines_column_based(proj, h)
                spans == measure_boundary_spans(combined, vlines)
                solution == solve_hex_constraints(spans.max_horizontal_span, box.width,
                                box.height, combined, vlines, h, w)
            IN IF "kind" \in DOMAIN solution THEN solution
               ELSE [kind |-> "GridParams",
                     params |-> calculate_grid_from_boundaries(box, solution, expected_tiles)]

\* C14: the outcome of an analysis is the outcome the same raster has with
\* every other value of expected_tiles.
C14_ExpectedTilesIgnored ==
    pc = "done" =>
        \A e \in ExpectedTiles :
            analyze_grid_structure(edges, shape.height, shape.width, e) = outcome

C14_Witness ==
    /\ pc = "done"
    /\ Returned
    /\ args.expected_tiles = 2
    /\ outcome.params.cols * outcome.params.rows # args.expected_tiles
    /\ analyze_grid_structure(edges, shape.height, shape.width, DefaultExpectedTiles) = outcome

\* ------------------------------------------------------------------------
\* Direct calls of single functions: the arguments are in args, the return
\* value in result, and the analysis variables stay idle.
\* ------------------------------------------------------------------------
NoAnalysis ==
    /\ scene = None
    /\ shape = None
    /\ edges = {}
    /\ Idle
    /\ result = None

Return(from, to, value) ==
    /\ pc = from
    /\ pc' = to
    /\ result' = value
    /\ UNCHANGED <<scene, shape, edges, projections, combined_boundary, boundaries,
                   vertical_lines, line_segments, constraint_solution, grid_solution,
                   stages, outcome, args>>

\* ---- row counting -------------------------------------------------------
MaxRowSegs == 7        \* long column segments in one call

RowHeights == {45, 60}
RowGaps == {0, 6, 7, 9}     \* distances between consecutive doubled centres

\* the doubled centre of the i-th long segment: the first one is 20
RECURSIVE Centre2(_, _)
Centre2(gaps, i) == IF i = 0 THEN 20 ELSE Centre2(gaps, i - 1) + gaps[i]

\* a column segment longer than 20 px with the doubled centre c2
SegmentAt(c2) ==
    IF c2 % 2 = 0
    THEN [start |-> (c2 - 20) \div 2, end |-> (c2 + 20) \div 2, length |-> 21]
    ELSE [start |-> (c2 - 21) \div 2, end |-> (c2 + 21) \div 2, length |-> 22]

ShortSegment == [start |-> 0, end |-> 19, length |-> 20]

RowSegments(gaps, reversed, noise) ==
    LET n == Len(gaps) + 1
        long == [i \in 1 .. n |->
                    SegmentAt(Centre2(gaps, IF reversed THEN n - i ELSE i - 1))]
    IN IF noise THEN <<ShortSegment>> \o long ELSE long

RowInputs ==
    {[vertical_segments |-> <<>>, height |-> h] : h \in RowHeights} \cup
    {[vertical_segments |-> <<ShortSegment>>, height |-> h] : h \in RowHeights} \cup
    {in \in {[vertical_segments |-> RowSegments(gaps, reversed, noise), height |-> h] :
                h \in RowHeights,
                gaps \in UNION {[1 .. n -> RowGaps] : n \in 0 .. MaxRowSegs - 1},
                reversed \in BOOLEAN, noise \in BOOLEAN} :
        \A i \in 1 .. Len(in.vertical_segments) : in.vertical_segments[i].end < in.height}

InitRows == pc = "rows_call" /\ args \in RowInputs /\ NoAnalysis

CountRows ==
    Return("rows_call", "rows_done", CountFromSegments(args.vertical_segments, args.height))

NextRows == CountRows

SpecRows == InitRows /\ [][NextRows]_vars

\* the clusters of the midpoints of the long segments: a midpoint opens a
\* cluster when no smaller midpoint lies within height/15 of it
LongCentres2(segments) ==
    {segments[i].start + segments[i].end :
        i \in {j \in 1 .. Len(segments) : segments[j].length > 20}}

ClusterCount(segments, height) ==
    LET cs == LongCentres2(segments)
    IN Cardinality({c \in cs : ~\E b \in cs : b < c /\ 15 * (c - b) <= 2 * height})

\* C6: with k clusters of midpoints of segments longer than 20 px (k <= 20),
\* the row count is max(5, k).
C6_RowsAreClusters ==
    (pc = "rows_done" /\ LongCentres2(args.vertical_segments) # {}
                      /\ ClusterCount(args.vertical_segments, args.height) <= 20) =>
        /\ ~result.raised
        /\ result.rows = Max2(5, ClusterCount(args.vertical_segments, args.height))

C6_Witness ==
    /\ pc = "rows_done"
    /\ ClusterCount(args.vertical_segments, args.height) = 6
    /\ Cardinality(LongCentres2(args.vertical_segments)) > 6
    /\ result.rows = 6

\* ---- match predicate ----------------------------------------------------
MaxMatchCols == 14     \* largest column count of a constructed match

\* lx, rx and image_width built from c columns of width hw, the pair k tiles apart
MatchInputs ==
    {[cols |-> c, lx |-> lx, rx |-> lx + k * hw, image_width |-> c * hw, hw |-> hw, k |-> k] :
        c \in {n \in ColumnRange : n <= MaxMatchCols}, hw \in min_width .. max_width,
        k \in 1 .. MaxMatchCols, lx \in {0, 17}}

InitMatch ==
    /\ pc = "match_call"
    /\ args \in {in \in MatchInputs : in.k <= in.cols}
    /\ NoAnalysis

CallMatch ==
    Return("match_call", "match_done",
           constraint_matched_for_pair(args.cols, args.lx, args.rx, args.image_width))

NextMatch == CallMatch

SpecMatch == InitMatch /\ [][NextMatch]_vars

\* C9: on lx, rx = lx + k*hw, image_width = c*hw the predicate matches and
\* reports exactly hw.
C9_ReportsConstructedWidth ==
    pc = "match_done" => (result.matched /\ result.hex_width = args.hw)

\* C28: a match of c columns with width hw is consistent with c:
\* image_width / hw rounds to c when the image holds full tiles, and
\* 2 * image_width / hw rounds to 2c - 1 or 2c + 1 when it ends in half a tile.
C28_ConsistentWithCols ==
    (pc = "match_done" /\ result.matched) =>
        IF FullTiles(args.image_width, result.hex_width)
        THEN RoundDiv(args.image_width, result.hex_width) = args.cols
        ELSE RoundDiv(2 * args.image_width, result.hex_width)
                 \in {2 * args.cols - 1, 2 * args.cols + 1}

\* ---- match predicate on arbitrary arguments ------------------------------
MaxSoundCols == 7      \* largest column count of a call

SoundWidths == (230 .. 250) \cup {300, 420}
SoundSpans == -1 .. 170

SoundInputs ==
    {[cols |-> c, lx |-> lx, rx |-> lx + span, image_width |-> w] :
        c \in {n \in ColumnRange : n <= MaxSoundCols}, lx \in {0, 9},
        span \in SoundSpans, w \in SoundWidths}

InitSound ==
    /\ pc = "sound_call"
    /\ args \in SoundInputs
    /\ NoAnalysis

CallMatchAny ==
    Return("sound_call", "sound_done",
           constraint_matched_for_pair(args.cols, args.lx, args.rx, args.image_width))

NextSound == CallMatchAny

SpecSound == InitSound /\ [][NextSound]_vars

\* value / hw lies within 0.01 of some integer k with k % 2 in parities
NearInteger(value, hw, parities) ==
    \E k \in 0 .. (value \div hw + 1) :
        /\ k % 2 \in parities
        /\ 100 * Abs(value - k * hw) <= hw

\* C18: a match with width hw has rx > lx, (rx - lx)/hw within 0.01 of an
\* integer, and image_width/hw within 0.01 of an integer or
\* 2*image_width/hw within 0.01 of an odd integer; with rx <= lx there is
\* no match.
C18_MatchSound ==
    pc = "sound_done" =>
        /\ result.matched =>
               /\ args.rx > args.lx
               /\ NearInteger(args.rx - args.lx, result.hex_width, {0, 1})
               /\ \/ NearInteger(args.image_width, result.hex_width, {0, 1})
                  \/ NearInteger(2 * args.image_width, result.hex_width, {1})
        /\ args.rx <= args.lx => ~result.matched

C18_Witness ==
    /\ pc = "sound_done"
    /\ result.matched
    /\ ~NearInteger(args.image_width, result.hex_width, {0, 1})
    /\ NearInteger(2 * args.image_width, result.hex_width, {1})

\* ---- brute-force search --------------------------------------------------
MaxBruteSteps == 5     \* measured spans are multiples of 97 up to this many

BruteSpans == {97 * k : k \in 0 .. MaxBruteSteps}
BruteExtraWidths == {0, 1, 30, 45, 61, 120, 300, 515, 1000}

BruteInputs ==
    {[measured_span |-> sp, total_width |-> sp + d, total_height |-> 100] :
        sp \in BruteSpans, d \in BruteExtraWidths}

InitBrute ==
    /\ pc = "brute_call"
    /\ args \in BruteInputs
    /\ NoAnalysis

BruteForce ==
    Return("brute_call", "brute_done",
           brute_force_constraint_solving(args.measured_span, args.total_width,
                                          args.total_height))

NextBrute == BruteForce

SpecBrute == InitBrute /\ [][NextBrute]_vars

\* the doubled score of a configuration for the arguments of the call
Score2(cols, hex_width) ==
    2 * Abs(args.measured_span - (cols - 1) * hex_width)
    + Min2(Abs(2 * args.total_width - 2 * cols * hex_width),
           Abs(2 * args.total_width - (2 * cols * hex_width + hex_width)))

ScanDomain == (5 .. 99) \X (30 .. 99)

\* C19: the returned (cols, hex_width) lies in range(5, 100) x range(30, 100),
\* its score is the minimum over the whole domain, and it is the first
\* minimiser in scan order (cols ascending, then hex_width ascending).
C19_BruteForceMinimum ==
    pc = "brute_done" =>
        /\ <<result.cols, result.hex_width>> \in ScanDomain
        /\ \A d \in ScanDomain :
               /\ Score2(d[1], d[2]) >= Score2(result.cols, result.hex_width)
               /\ Score2(d[1], d[2]) = Score2(result.cols, result.hex_width) =>
                      \/ d[1] > result.cols
                      \/ d[1] = result.cols /\ d[2] >= result.hex_width

C19_Witness ==
    /\ pc = "brute_done"
    /\ \E d \in ScanDomain :
           /\ d # <<result.cols, result.hex_width>>
           /\ Score2(d[1], d[2]) = Score2(result.cols, result.hex_width)

\* ---- pair matching ------------------------------------------------------
MaxPairSegs == 3       \* segments on each side

PairGaps == {0, 1}          \* blank rows before a segment
PairLengths == {20, 45}

\* the segments of one side lie below one another, as the row scan emits them
RECURSIVE StartOf(_, _)
StartOf(choices, i) ==
    IF i = 1 THEN choices[1][1]
    ELSE StartOf(choices, i - 1) + choices[i - 1][2] + choices[i][1]

SideLines(choices, x) ==
    [i \in 1 .. Len(choices) |->
        [start_x |-> x, start_y |-> StartOf(choices, i),
         end_y |-> StartOf(choices, i) + choices[i][2] - 1, length |-> choices[i][2]]]

SideChoices == UNION {[1 .. n -> PairGaps \X PairLengths] : n \in 0 .. MaxPairSegs}

InitPairs ==
    /\ pc = "pairs_call"
    /\ args \in {[left_lines |-> SideLines(l, 10), right_lines |-> SideLines(r, 130)] :
                    l \in SideChoices, r \in SideChoices}
    /\ NoAnalysis

MatchSegments ==
    Return("pairs_call", "pairs_done",
           find_matching_left_right_segments(args.left_lines, args.right_lines))

NextPairs == MatchSegments

SpecPairs == InitPairs /\ [][NextPairs]_vars

\* C10: no left index and no right index occurs in two of the returned pairs.
C10_OneToOne ==
    pc = "pairs_done" =>
        \A i, j \in 1 .. Len(result) :
            i # j => (result[i][1] # result[j][1] /\ result[i][2] # result[j][2])

C10_Witness ==
    /\ pc = "pairs_done"
    /\ Len(result) >= 2
    /\ Len(PotentialMatches(args.left_lines, args.right_lines)) > Len(result)

\* ---- gap tolerance of the two extraction scans ---------------------------
MaxGapTol == 5         \* largest gap_tolerance passed to a scan

RunLengths == {4, 10, 13}       \* rows of a foreground run
RunMargins == {0, 3, 7}         \* blank rows above the first / below the second run

\* one column at x: lead blank rows, a run of la rows, gap blank rows, a run
\* of lb rows, trail blank rows
GapInputs ==
    {[fn |-> fn, side |-> side, x |-> x, gap_tolerance |-> gt,
      lead |-> lead, la |-> la, gap |-> gap, lb |-> lb,
      height |-> lead + la + gap + lb + trail] :
        fn \in {"side", "column"}, side \in {"left", "right"}, x \in {0, 4},
        gt \in 0 .. MaxGapTol, lead \in RunMargins, la \in RunLengths,
        gap \in 1 .. MaxGapTol + 2, lb \in RunLengths, trail \in RunMargins}

FirstRun(in) == in.lead .. (in.lead + in.la - 1)
SecondRun(in) == (in.lead + in.la + in.gap) .. (in.lead + in.la + in.gap + in.lb - 1)
GapColumn(in) == FirstRun(in) \cup SecondRun(in)

InitGap ==
    /\ pc = "gap_call"
    /\ args \in {in \in GapInputs : in.fn = "side" \/ in.side = "left"}
    /\ NoAnalysis

ScanSide ==
    /\ args.fn = "side"
    /\ Return("gap_call", "gap_done",
              extract_lines_from_side({<<y, args.x>> : y \in GapColumn(args)}, args.side,
                                      x_tolerance, args.gap_tolerance, args.height))

ScanColumn ==
    /\ args.fn = "column"
    /\ Return("gap_call", "gap_done",
              extract_vertical_segments_from_column(GapColumn(args), args.x,
                                                    args.gap_tolerance, args.height))

NextGap == ScanSide \/ ScanColumn

SpecGap == InitGap /\ [][NextGap]_vars

BothRunsLong(in) == in.la >= MIN_LINE_LENGTH /\ in.lb >= MIN_LINE_LENGTH

\* C11: in both scans two runs of at least the minimum length separated by
\* exactly gap_tolerance blank rows come out as one segment that starts with
\* the first run and reaches the end of the second; separated by
\* gap_tolerance + 1 blank rows they come out as two segments, one starting
\* with each run, the first ending above the second run.
C11_GapTolerance ==
    (pc = "gap_done" /\ BothRunsLong(args)) =>
        /\ args.gap = args.gap_tolerance =>
               /\ Len(result) = 1
               /\ result[1].start_y = SetMin(FirstRun(args))
               /\ result[1].end_y >= SetMax(SecondRun(args))
        /\ args.gap = args.gap_tolerance + 1 =>
               /\ Len(result) = 2
               /\ result[1].start_y = SetMin(FirstRun(args))
               /\ result[1].end_y < SetMin(SecondRun(args))
               /\ result[2].start_y = SetMin(SecondRun(args))
               /\ result[2].end_y >= SetMax(SecondRun(args))

C11_Witness ==
    /\ pc = "gap_done"
    /\ args.fn = "column"
    /\ BothRunsLong(args)
    /\ args.gap = args.gap_tolerance + 1
    /\ Len(result) = 2

\* C27: every segment emitted by the two scans starts and ends on a row that
\* holds a foreground pixel: tolerated blank rows at the tail are counted
\* neither into end_y nor into the length compared with MIN_LINE_LENGTH.
C27_EndsOnForeground ==
    pc = "gap_done" =>
        \A i \in 1 .. Len(result) :
            /\ result[i].start_y \in FirstRun(args) \cup SecondRun(args)
            /\ result[i].end_y \in FirstRun(args) \cup SecondRun(args)
            /\ Cardinality({y \in FirstRun(args) \cup SecondRun(args) :
                               result[i].start_y <= y /\ y <= result[i].end_y})
                   >= MIN_LINE_LENGTH

\* ---- merge of column segments into thick lines --------------------------
MaxColumnShift == 4    \* largest distance between the two columns of a mask

MergeStarts == {0, 3, 8}
MergeLengths == {10, 14, 25}

\* a mask with one run in column x and one in column x + shift
MergeInputs ==
    {[x |-> x, shift |-> shift, s1 |-> s1, l1 |-> l1, s2 |-> s2, l2 |-> l2,
      with_mask |-> m, height |-> 40, width |-> x + shift + 2] :
        x \in {2, 5}, shift \in 1 .. MaxColumnShift, m \in BOOLEAN,
        s1 \in MergeStarts, l1 \in MergeLengths, s2 \in MergeStarts, l2 \in MergeLengths}

MergeMask(in) ==
    {<<y, in.x>> : y \in in.s1 .. (in.s1 + in.l1 - 1)}
    \cup {<<y, in.x + in.shift>> : y \in in.s2 .. (in.s2 + in.l2 - 1)}

\* with the mask, or only with the left / right vertical projections of it
MergeProjections(in) ==
    IF in.with_mask
    THEN [vertical_edge_mask |-> MergeMask(in)]
    ELSE [view_from_left_vertical |-> view_from_left(MergeMask(in), in.width),
          view_from_right_vertical |-> view_from_right(MergeMask(in), in.width)]

InitMerge ==
    /\ pc = "merge_call"
    /\ args \in MergeInputs
    /\ NoAnalysis

ExtractAll ==
    Return("merge_call", "merge_done",
           extract_all_vertical_segments(MergeProjections(args), x_tolerance, gap_tolerance,
                                         args.height, args.width))

NextMerge == ExtractAll

SpecMerge == InitMerge /\ [][NextMerge]_vars

\* the raw column segments of the mask of a call
RawSegments(in) == AllColumnSegments(MergeMask(in), 0, in.width, in.height, gap_tolerance)

\* C12: in full-mask mode, when the raw column segments are exactly two, at
\* columns x and x + 3, and their y-ranges overlap by more than 10 px, the
\* function returns exactly one logical segment with thickness 4 and
\* component_count 2 that spans from the smaller start_y to the larger end_y.
C12_MergeRule ==
    (pc = "merge_done" /\ args.with_mask /\ Len(RawSegments(args)) = 2) =>
        LET a == RawSegments(args)[1]
            b == RawSegments(args)[2]
        IN (b.start_x = a.start_x + 3 /\ OverlapLength(a, b) > 10) =>
               /\ Len(result) = 1
               /\ result[1].thickness = 4
               /\ result[1].component_count = 2
               /\ result[1].start_y = Min2(a.start_y, b.start_y)
               /\ result[1].end_y = Max2(a.end_y, b.end_y)

C12_Witness ==
    /\ pc = "merge_done"
    /\ args.with_mask
    /\ args.shift = 3
    /\ Len(RawSegments(args)) = 2
    /\ OverlapLength(RawSegments(args)[1], RawSegments(args)[2]) > 10
    /\ RawSegments(args)[1].end_y # RawSegments(args)[2].end_y
    /\ Len(result) = 1
    /\ result[1].component_count = 2

\* ---- matched-pair solver ------------------------------------------------
MaxSolvePairs == 2     \* matched pairs handed to the solver

SolveLeftX == {0, 10}
SolveRightX == {130, 154, 240, 250}
SolveWidths == {200, 240, 480}
SolveMargins == {0, 1}

\* the i-th left line and the i-th right line, 30 rows each, below one another
SolveLine(x, i) ==
    [start_x |-> x, start_y |-> 40 * (i - 1), end_y |-> 40 * (i - 1) + 29, length |-> 30]

SolveInputsOf(n, w) ==
    {[matched_pairs |-> [i \in 1 .. n |-> <<i, i>>],
      left_lines |-> [i \in 1 .. n |-> SolveLine(xs[i][1], i)],
      right_lines |-> [i \in 1 .. n |-> SolveLine(xs[i][2], i)],
      image_width |-> w, error_margin |-> m] :
        m \in SolveMargins,
        xs \in [1 .. n -> SolveLeftX \X {x \in SolveRightX : x < w}]}

SolveInputs == UNION {SolveInputsOf(n, w) : n \in 1 .. MaxSolvePairs, w \in SolveWidths}

InitSolve ==
    /\ pc = "solve_call"
    /\ args \in SolveInputs
    /\ NoAnalysis

SolvePairs ==
    Return("solve_call", "solve_done",
           solve_constraints_from_matched_pairs(args.matched_pairs, args.left_lines,
               args.right_lines, args.image_width, args.error_margin))

NextSolve == SolvePairs

SpecSolve == InitSolve /\ [][NextSolve]_vars

CandidateSet(solution) ==
    {solution.column_candidates[i] : i \in 1 .. Len(solution.column_candidates)}

\* C15: the top candidate has the largest confidence of all candidates, and
\* of the candidates with that confidence it has the largest column count.
C15_TopCandidate ==
    (pc = "solve_done" /\ result.top_candidate # <<>>) =>
        LET top == result.top_candidate[1]
        IN \A c \in CandidateSet(result) :
               /\ c.confidence <= top.confidence
               /\ c.confidence = top.confidence => c.cols <= top.cols

\* C29: has_half_tile of a column candidate is true exactly when its recorded
\* match was accepted by the half-tile condition, and false exactly when it
\* was accepted by the full-tile condition.
C29_HalfTileFlag ==
    pc = "solve_done" =>
        \A c \in CandidateSet(result) :
            \A i \in 1 .. Len(c.hex_width_samples) :
                c.has_half_tile <=> ~FullTiles(args.image_width, c.hex_width_samples[i])

\* the matched pairs that match numcols somewhere inside their windows
SupportOf(in, numcols) ==
    {in.matched_pairs[i] : i \in
        {j \in 1 .. Len(in.matched_pairs) :
            WindowHits(numcols, in.left_lines[in.matched_pairs[j][1]].start_x,
                       in.right_lines[in.matched_pairs[j][2]].start_x,
                       in.image_width, in.error_margin) # {}}}

\* C16: for every column count of range(5, 100) with supporting pairs there
\* is a candidate whose supporting pairs are exactly those pairs and whose
\* confidence is their number; a column count without one has no candidate.
C16_Evidence ==
    pc = "solve_done" =>
        \A numcols \in ColumnRange :
            LET support == SupportOf(args, numcols)
                found == {c \in CandidateSet(result) : c.cols = numcols}
            IN IF support = {} THEN found = {}
               ELSE /\ Cardinality(found) = 1
                    /\ \A c \in found :
                           /\ {c.supporting_pairs[i] : i \in 1 .. Len(c.supporting_pairs)} = support
                           /\ c.confidence = Cardinality(support)

PairOverlap(in, pair) == OverlapLength(in.left_lines[pair[1]], in.right_lines[pair[2]])

\* the candidates of a call: every left/right combination overlapping by 20 px or more
PairCandidates(in) ==
    {pair \in (1 .. Len(in.left_lines)) \X (1 .. Len(in.right_lines)) :
        PairOverlap(in, pair) >= MIN_OVERLAP}

\* candidate a comes before candidate b in the commit order: larger overlap,
\* or the same overlap and found earlier by the two nested loops
CommitsBefore(in, a, b) ==
    \/ PairOverlap(in, a) > PairOverlap(in, b)
    \/ /\ PairOverlap(in, a) = PairOverlap(in, b)
       /\ (a[1] < b[1] \/ (a[1] = b[1] /\ a[2] < b[2]))

\* C20: every returned pair overlaps by at least 20 px, the pairs are listed
\* in non-increasing overlap order, and every candidate that was not
\* committed shares its left or its right segment with a pair committed
\* before it in the order.
C20_GreedyOrder ==
    pc = "pairs_done" =>
        /\ \A i \in 1 .. Len(result) : PairOverlap(args, result[i]) >= MIN_OVERLAP
        /\ \A i, j \in 1 .. Len(result) :
               i < j => PairOverlap(args, result[i]) >= PairOverlap(args, result[j])
        /\ \A cand \in PairCandidates(args) :
               \/ \E i \in 1 .. Len(result) : result[i] = cand
               \/ \E i \in 1 .. Len(result) :
                      /\ result[i][1] = cand[1] \/ result[i][2] = cand[2]
                      /\ CommitsBefore(args, result[i], cand)

C20_Witness ==
    /\ pc = "pairs_done"
    /\ Len(result) >= 2
    /\ PairOverlap(args, result[1]) > PairOverlap(args, result[2])
    /\ \E cand \in PairCandidates(args) : \A i \in 1 .. Len(result) : result[i] # cand

UnmatchedLeft(in, pairs) ==
    {li \in 1 .. Len(in.left_lines) : \A i \in 1 .. Len(pairs) : pairs[i][1] # li}

UnmatchedRight(in, pairs) ==
    {ri \in 1 .. Len(in.right_lines) : \A i \in 1 .. Len(pairs) : pairs[i][2] # ri}

\* C26: the greedy matching is maximal: when the matching returns, no left
\* segment and right segment are both unmatched while overlapping vertically
\* by MIN_OVERLAP or more.
C26_Maximal ==
    pc = "pairs_done" =>
        \A li \in UnmatchedLeft(args, result) :
            \A ri \in UnmatchedRight(args, result) :
                PairOverlap(args, <<li, ri>>) < MIN_OVERLAP

C26_Witness ==
    /\ pc = "pairs_done"
    /\ Len(result) >= 1
    /\ UnmatchedLeft(args, result) # {}
    /\ UnmatchedRight(args, result) # {}
    /\ \E li \in UnmatchedLeft(args, result) : \E ri \in 1 .. Len(args.right_lines) :
           PairOverlap(args, <<li, ri>>) >= MIN_OVERLAP
    /\ \E ri \in UnmatchedRight(args, result) : \E li \in 1 .. Len(args.left_lines) :
           PairOverlap(args, <<li, ri>>) >= MIN_OVERLAP

\* ---- the three segment extractors on one raster ---------------------------
SegmentCalls == {"side_left", "side_right", "column_first", "column_second", "all"}

InitSegments ==
    /\ pc = "segments_call"
    /\ args \in {[fn |-> fn, in |-> in] :
                    fn \in SegmentCalls, in \in {m \in MergeInputs : m.with_mask}}
    /\ NoAnalysis

SegmentsFromSide ==
    /\ args.fn \in {"side_left", "side_right"}
    /\ Return("segments_call", "segments_done",
              extract_lines_from_side(MergeMask(args.in),
                                      IF args.fn = "side_left" THEN "left" ELSE "right",
                                      x_tolerance, gap_tolerance, args.in.height))

SegmentsFromColumn ==
    /\ args.fn \in {"column_first", "column_second"}
    /\ LET col == IF args.fn = "column_first" THEN args.in.x ELSE args.in.x + args.in.shift
       IN Return("segments_call", "segments_done",
                 extract_vertical_segments_from_column(ColPixels(MergeMask(args.in), col), col,
                                                       gap_tolerance, args.in.height))

SegmentsFromMask ==
    /\ args.fn = "all"
    /\ Return("segments_call", "segments_done",
              extract_all_vertical_segments(MergeProjections(args.in), x_tolerance,
                                            gap_tolerance, args.in.height, args.in.width))

NextSegments == SegmentsFromSide \/ SegmentsFromColumn \/ SegmentsFromMask

SpecSegments == InitSegments /\ [][NextSegments]_vars

\* the anchor x of a foreground row seen from the side of the call
AnchorX(call, y) ==
    IF call.fn = "side_left" THEN SetMin(RowPixels(MergeMask(call.in), y))
    ELSE SetMax(RowPixels(MergeMask(call.in), y))

\* C21: every segment returned by the three extractors has
\* length = end_y - start_y + 1 and length >= MIN_LINE_LENGTH; in per-side
\* mode every foreground row inside a segment has its anchor x within
\* x_tolerance of the segment's x.
C21_SegmentInvariant ==
    pc = "segments_done" =>
        \A i \in 1 .. Len(result) :
            /\ result[i].length = result[i].end_y - result[i].start_y + 1
            /\ result[i].length >= MIN_LINE_LENGTH
            /\ args.fn \in {"side_left", "side_right"} =>
                   \A y \in result[i].start_y .. result[i].end_y :
                       RowPixels(MergeMask(args.in), y) # {} =>
                           Abs(AnchorX(args, y) - result[i].start_x) <= x_tolerance

C21_Witness ==
    /\ pc = "segments_done"
    /\ args.fn = "side_left"
    /\ Len(result) = 1
    /\ \E y \in result[1].start_y .. result[1].end_y :
           /\ RowPixels(MergeMask(args.in), y) # {}
           /\ Abs(AnchorX(args, y) - result[1].start_x) = x_tolerance

\* ---- row bands: _get_matching_segments_in_rows ---------------------------
\* sorted(seq, key): stable and ascending; keys[i] is the key of seq[i], a
\* pair compared as Python compares tuples
StableSortBy(seq, keys) ==
    LET n == Len(seq)
        Before(a, b) == a[1] < b[1] \/ (a[1] = b[1] /\ a[2] < b[2])
        rank(i) == Cardinality({j \in 1 .. n :
                       \/ Before(keys[j], keys[i])
                       \/ (keys[j] = keys[i] /\ j < i)}) + 1
    IN [k \in 1 .. n |-> seq[CHOOSE i \in 1 .. n : rank(i) = k]]

\* if overlap_length >= min_overlap
Absorbs(overlap_length, min_overlap) == overlap_length >= min_overlap

\* the inner loop: absorb every unused segment that overlaps the growing range
RECURSIVE AbsorbScan(_, _, _, _, _, _, _)
AbsorbScan(sorted_segments, j, used_segments, row_segments, base_start_y, base_end_y, min_overlap) ==
    IF j > Len(sorted_segments)
    THEN [used_segments |-> used_segments, row_segments |-> row_segments,
          base_start_y |-> base_start_y, base_end_y |-> base_end_y]
    ELSE LET other_segment == sorted_segments[j]
             overlap_start == Max2(base_start_y, other_segment.start_y)
             overlap_end == Min2(base_end_y, other_segment.end_y)
         IN IF /\ j \notin used_segments
               /\ overlap_start <= overlap_end
               /\ Absorbs(overlap_end - overlap_start + 1, min_overlap)
            THEN AbsorbScan(sorted_segments, j + 1, used_segments \cup {j},
                            Append(row_segments, other_segment),
                            Min2(base_start_y, other_segment.start_y),
                            Max2(base_end_y, other_segment.end_y), min_overlap)
            ELSE AbsorbScan(sorted_segments, j + 1, used_segments, row_segments,
                            base_start_y, base_end_y, min_overlap)

RowGroupOfAnySize(row_groups, row_segments, base_start_y, base_end_y) ==
    Append(row_groups,
           [y_start |-> base_start_y, y_end |-> base_end_y,
            y_range |-> base_end_y - base_start_y + 1,
            segments |-> row_segments, segment_count |-> Len(row_segments)])

\* row_segments.sort(key=start_x); if len(row_segments) >= 3: row_groups.append(...)
RowGroup(row_groups, row_segments, base_start_y, base_end_y) ==
    LET by_x == StableSortBy(row_segments,
                             [k \in 1 .. Len(row_segments) |-> <<row_segments[k].start_x, 0>>])
    IN IF Len(by_x) >= 3
       THEN Append(row_groups,
                   [y_start |-> base_start_y, y_end |-> base_end_y,
                    y_range |-> base_end_y - base_start_y + 1,
                    segments |-> by_x, segment_count |-> Len(by_x),
                    leftmost_x |-> by_x[1].start_x,
                    rightmost_x |-> by_x[Len(by_x)].start_x,
                    span |-> by_x[Len(by_x)].start_x - by_x[1].start_x,
                    x_positions |-> [k \in 1 .. Len(by_x) |-> by_x[k].start_x]])
       ELSE row_groups

\* the outer loop over the segments sorted by start_y
RECURSIVE GroupRows(_, _, _, _, _)
GroupRows(sorted_segments, i, used_segments, row_groups, min_overlap) ==
    IF i > Len(sorted_segments) THEN row_groups
    ELSE IF i \in used_segments
         THEN GroupRows(sorted_segments, i + 1, used_segments, row_groups, min_overlap)
         ELSE LET base_segment == sorted_segments[i]
                  scan == AbsorbScan(sorted_segments, 1, used_segments \cup {i},
                                     <<base_segment>>, base_segment.start_y,
                                     base_segment.end_y, min_overlap)
              IN GroupRows(sorted_segments, i + 1, scan.used_segments,
                           RowGroup(row_groups, scan.row_segments, scan.base_start_y,
                                    scan.base_end_y),
                           min_overlap)

\* row_groups.sort(key=(segment_count, y_range), reverse=True): larger key
\* first, equal keys in their order of creation
SortRowGroups(row_groups) ==
    StableSortBy(row_groups,
                 [k \in 1 .. Len(row_groups) |->
                     <<-row_groups[k].segment_count, -row_groups[k].y_range>>])

get_matching_segments_in_rows(all_segments, min_overlap) ==
    LET sorted_segments ==
            StableSortBy(all_segments,
                         [k \in 1 .. Len(all_segments) |-> <<all_segments[k].start_y, 0>>])
    IN SortRowGroups(GroupRows(sorted_segments, 1, {}, <<>>, min_overlap))

MaxBandSegs == 6    \* most segments handed to the row grouping

\* y-ranges of the segments: one at the top, and a chain of three far below
BandRanges == {<<0, 29>>, <<100, 129>>, <<110, 159>>, <<140, 169>>}

\* segment k of an input stands at x = 10 * k, so no two segments are equal
BandInputs ==
    UNION {{[k \in 1 .. n |->
               [start_x |-> 10 * k, start_y |-> ys[k][1], end_y |-> ys[k][2],
                length |-> ys[k][2] - ys[k][1] + 1]] :
            ys \in [1 .. n -> BandRanges]} : n \in 3 .. MaxBandSegs}

InitBands ==
    /\ pc = "bands_call"
    /\ args \in BandInputs
    /\ NoAnalysis

MatchRows ==
    Return("bands_call", "bands_done", get_matching_segments_in_rows(args, MIN_OVERLAP))

SpecBands == InitBands /\ [][MatchRows]_vars

OverlapOf(a, b) == Min2(a.end_y, b.end_y) - Max2(a.start_y, b.start_y) + 1

\* C22: in every band returned by _get_matching_segments_in_rows every two
\* member segments have y-ranges that overlap each other by at least
\* MIN_OVERLAP.
C22_MutualOverlap ==
    pc = "bands_done" =>
        \A b \in 1 .. Len(result) :
            \A i, j \in 1 .. Len(result[b].segments) :
                OverlapOf(result[b].segments[i], result[b].segments[j]) >= MIN_OVERLAP

\* C23: every band holds at least 3 segments, no segment is in two bands,
\* y_start / y_end are the least start_y / greatest end_y of the members,
\* and the list is ordered by (segment_count, y_range), non-increasing.
C23_BandList ==
    pc = "bands_done" =>
        /\ \A b \in 1 .. Len(result) :
               LET members == {result[b].segments[k] : k \in 1 .. Len(result[b].segments)}
               IN /\ Len(result[b].segments) >= 3
                  /\ Cardinality(members) = Len(result[b].segments)
                  /\ members \subseteq {args[k] : k \in 1 .. Len(args)}
                  /\ result[b].y_start = SetMin({m.start_y : m \in members})
                  /\ result[b].y_end = SetMax({m.end_y : m \in members})
        /\ \A b, c \in 1 .. Len(result) :
               b < c =>
                   /\ \A k \in 1 .. Len(result[b].segments) :
                          \A l \in 1 .. Len(result[c].segments) :
                              result[b].segments[k] # result[c].segments[l]
                   /\ result[b].segment_count >= result[c].segment_count
                   /\ result[b].segment_count = result[c].segment_count =>
                          result[b].y_range >= result[c].y_range

C23_Witness ==
    /\ pc = "bands_done"
    /\ Len(result) = 2
    /\ result[1].y_start > result[2].y_start
    /\ result[1].segment_count = 3
    /\ result[2].segment_count = 3

\* ---- the directional projections of arbitrary small rasters --------------
MaxRasterWidth == 3    \* widest raster handed to the projections

\* every raster of three rows and 1 .. MaxRasterWidth columns
RasterInputs ==
    UNION {{[edges |-> px, height |-> 3, width |-> w] :
              px \in SUBSET ((0 .. 2) \X (0 .. (w - 1)))} : w \in 1 .. MaxRasterWidth}

InitRasters ==
    /\ pc = "projections_call"
    /\ args \in RasterInputs
    /\ NoAnalysis

ProjectRaster ==
    Return("projections_call", "projections_done",
           get_4_directional_projections(args.edges, args.height, args.width))

SpecRasters == InitRasters /\ [][ProjectRaster]_vars

\* what each direction scans: its scan lines, each in the order it is seen
ScanLines(direction, h, w) ==
    CASE direction = "view_from_top" ->
             {[i \in 1 .. h |-> <<i - 1, col>>] : col \in 0 .. (w - 1)}
      [] direction = "view_from_bottom" ->
             {[i \in 1 .. h |-> <<h - i, col>>] : col \in 0 .. (w - 1)}
      [] direction = "view_from_left" ->
             {[i \in 1 .. w |-> <<row, i - 1>>] : row \in 0 .. (h - 1)}
      [] direction = "view_from_right" ->
             {[i \in 1 .. w |-> <<row, w - i>>] : row \in 0 .. (h - 1)}

\* the first foreground pixel of a scan line and the edge_thickness - 1 after it
ExpectedOnLine(img, line) ==
    LET seen == {i \in 1 .. Len(line) : line[i] \in img}
    IN IF seen = {} THEN {}
       ELSE {line[i] : i \in SetMin(seen) .. Min2(SetMin(seen) + edge_thickness - 1, Len(line))}

\* C24: on every scan line of each of the four directions the projection
\* holds exactly the first foreground pixel seen from that side and the
\* next edge_thickness - 1 pixels along the scan, clipped to the raster; the
\* line is blank exactly when the edge raster has no foreground on it.
C24_Projections ==
    pc = "projections_done" =>
        \A direction \in {"view_from_top", "view_from_bottom", "view_from_left", "view_from_right"} :
            LET lines == ScanLines(direction, args.height, args.width)
            IN /\ result[direction] \subseteq (0 .. (args.height - 1)) \X (0 .. (args.width - 1))
               /\ \A line \in lines :
                      LET on_line == {line[i] : i \in 1 .. Len(line)}
                      IN /\ result[direction] \cap on_line = ExpectedOnLine(args.edges, line)
                         /\ (result[direction] \cap on_line = {}) <=> (args.edges \cap on_line = {})

C24_Witness ==
    /\ pc = "projections_done"
    /\ args.width = MaxRasterWidth
    /\ <<1, 1>> \in args.edges
    /\ Cardinality(args.edges) = 1
    /\ result.view_from_top = {<<1, 1>>, <<2, 1>>}
    /\ result.view_from_right = {<<1, 1>>, <<1, 0>>}

\* C25: the combined boundary is the OR of exactly the six directional
\* rasters (top, bottom, left, right, left_vertical, right_vertical), and the
\* box of its nonzero pixels never extends beyond the box of the edge
\* raster's foreground.
C25_SixRasters ==
    "boundary" \in stages =>
        /\ combined_boundary =
               UNION {projections[k] : k \in {"view_from_top", "view_from_bottom",
                                              "view_from_left", "view_from_right",
                                              "view_from_left_vertical",
                                              "view_from_right_vertical"}}
        /\ boundaries # None =>
               /\ boundaries.top = SetMin(RowsOf(combined_boundary))
               /\ boundaries.bottom = SetMax(RowsOf(combined_boundary))
               /\ boundaries.left = SetMin(ColsOf(combined_boundary))
               /\ boundaries.right = SetMax(ColsOf(combined_boundary))
               /\ boundaries.top >= SetMin(RowsOf(edges))
               /\ boundaries.bottom <= SetMax(RowsOf(edges))
               /\ boundaries.left >= SetMin(ColsOf(edges))
               /\ boundaries.right <= SetMax(ColsOf(edges))

\* ---- grouping of filtered segments into logical segments -----------------
MaxGroupShift == 3     \* largest distance between neighbouring columns of a mask

GroupStarts == {0, 6}
GroupLengths == {12, 25}

\* a mask with one run in each of three columns, d1 and d2 apart
GroupInputs ==
    {[xs |-> <<2, 2 + d1, 2 + d1 + d2>>, starts |-> st, lengths |-> ln,
      height |-> 40, width |-> 2 + d1 + d2 + 2] :
        d1 \in 1 .. MaxGroupShift, d2 \in 1 .. MaxGroupShift,
        st \in [1 .. 3 -> GroupStarts], ln \in [1 .. 3 -> GroupLengths]}

GroupMask(in) ==
    UNION {{<<y, in.xs[k]>> : y \in in.starts[k] .. (in.starts[k] + in.lengths[k] - 1)} :
           k \in 1 .. 3}

InitGroup ==
    /\ pc = "group_call"
    /\ args \in GroupInputs
    /\ NoAnalysis

GroupMaskSegments ==
    Return("group_call", "group_done",
           extract_all_vertical_segments([vertical_edge_mask |-> GroupMask(args)],
                                         x_tolerance, gap_tolerance, args.height, args.width))

SpecGroup == InitGroup /\ [][GroupMaskSegments]_vars

\* the segments that reach the grouping loop of a call
FilteredOf(in) ==
    FilterSegments(AllColumnSegments(GroupMask(in), 0, in.width, in.height, gap_tolerance),
                   <<>>, x_tolerance, gap_tolerance)

\* C30: the grouping into logical segments is a partition of the filtered
\* segments: every filtered segment is a component of exactly one logical
\* segment, the component_count values add up to the number of filtered
\* segments, and every logical segment has component_count >= 1,
\* 1 <= thickness <= 11 and an x between the least and the greatest x of its
\* components.
C30_Partition ==
    pc = "group_done" =>
        LET filtered == FilteredOf(args)
        IN /\ SeqSum([k \in 1 .. Len(result) |-> result[k].component_count]) = Len(filtered)
           /\ \E part \in [1 .. Len(filtered) -> 1 .. Len(result)] :
                  \A k \in 1 .. Len(result) :
                      LET components == {filtered[j] : j \in {i \in 1 .. Len(filtered) : part[i] = k}}
                      IN /\ result[k].component_count = Cardinality(components)
                         /\ result[k].component_count >= 1
                         /\ result[k].thickness >= 1
                         /\ result[k].thickness <= 11
                         /\ result[k].start_x >= SetMin({c.start_x : c \in components})
                         /\ result[k].start_x <= SetMax({c.start_x : c \in components})
                         /\ result[k].start_y = SetMin({c.start_y : c \in components})
                         /\ result[k].end_y = SetMax({c.end_y : c \in components})

C30_Witness ==
    /\ pc = "group_done"
    /\ Len(FilteredOf(args)) = 3
    /\ Len(result) = 2
    /\ result[1].component_count = 2
    /\ result[1].thickness = 4
    /\ SameThickLine(FilteredOf(args)[2], FilteredOf(args)[3])

====
